---- MODULE Spec2Model ----
(***************************************************************************)
(* Model of scripts/py/export-photos.py: the module-level parameter check  *)
(* and extract_attachments(inTable, fileLocation).                         *)
(*                                                                         *)
(* A path is the sequence of its segments (<<"out", "photos">> stands for  *)
(* out/photos, <<>> for the empty string); a payload is a sequence of      *)
(* bytes; the file system is the set of existing directories and a         *)
(* function from the existing files' paths to their contents.  Every call  *)
(* that touches the outside world (arcpy.Exists, os.makedirs,              *)
(* da.SearchCursor, the cursor's next, open, write) either succeeds or     *)
(* raises; a DATA value of NULL reaches Python as None, on which           *)
(* .tobytes() raises AttributeError.                                       *)
(***************************************************************************)
EXTENDS Integers, Sequences, FiniteSets, TLC

VARIABLES
    inTable,       \* arcpy.GetParameterAsText(0)
    fileLocation,  \* arcpy.GetParameterAsText(1), as path segments
    tableExists,   \* the source: what arcpy.Exists(inTable) finds
    rows,          \* the source: the rows the cursor yields, in cursor order
    dirs,          \* file system: the directories that exist
    files,         \* file system: path -> contents of the files that exist
    pc,            \* position in the script
    idx,           \* number of rows the cursor has yielded in this run
    cursorOpen,    \* the SearchCursor of line 25 is open
    openFiles,     \* paths of the output file handles that are open
    msgs,          \* the message sink: AddMessage / AddError calls of this run
    exc,           \* the exception raised in this run (NoExc: none)
    run,           \* which invocation of the script this is
    ops,           \* history: outside-world calls made in this run
    nOpened,       \* history: rows whose output file was opened in this run
    nWritten,      \* history: rows whose write completed in this run
    faulted,       \* history: an I/O call raised in this run
    dirs0,         \* history: dirs when this run started
    files0,        \* history: files when this run started
    after1         \* history: disk, messages and faults of the first run

vars == <<inTable, fileLocation, tableExists, rows, dirs, files, pc, idx,
          cursorOpen, openFiles, msgs, exc, run, ops, nOpened, nWritten,
          faulted, dirs0, files0, after1>>

-----------------------------------------------------------------------------
(* Bounds and input domains *)

MaxRows == 2

Runs == {1, 2}

TableNames == {"", "gdb/pts__ATTACH"}

Dest == <<"out", "photos">>

Locations == {<<>>, Dest}

Ids == {1, 2}

Names == {"a.jpg", "b.jpg"}

\* A NULL DATA value: no payload (a byte is never negative).
NULL == <<-1>>

Payloads == {<<>>, <<1, 2>>}

Rows == [data : Payloads \cup {NULL}, name : Names, id : Ids]

RowSeqs == UNION {[1..n -> Rows] : n \in 0..MaxRows}

NoExc == "none"

NoSnapshot ==
    [taken |-> FALSE, dirs |-> {}, files |-> <<>>, msgs |-> <<>>,
     faulted |-> FALSE]

-----------------------------------------------------------------------------
(* Pure helpers *)

\* Non-empty leading parts of a path: the directory itself and its parents.
Prefixes(p) == {SubSeq(p, 1, k) : k \in 1..Len(p)}

\* The text of a path, as it appears in a message.
RECURSIVE PathText(_)
PathText(p) ==
    IF p = <<>> THEN ""
    ELSE IF Len(p) = 1 THEN p[1]
    ELSE PathText(SubSeq(p, 1, Len(p) - 1)) \o "/" \o p[Len(p)]

\* Variant of Filename: the separator after the id is left out.
FilenameNoSeparator(item) == "ATT" \o ToString(item.id) \o item.name

\* Variant of Filename: the name carries the number of the invocation.
FilenameStamped(item) ==
    "ATT" \o ToString(item.id) \o "_" \o ToString(run) \o "_" \o item.name

\* Lines 32-33: filenum = f"ATT{attachment_id}_"; filename = filenum + name.
Filename(item) == "ATT" \o ToString(item.id) \o "_" \o item.name

\* Line 34: os.path.join(fileLocation, filename).
FilePath(loc, item) == Append(loc, Filename(item))

\* Line 20: os.path.exists is true of a directory and of a file alike.
PathExists(ds, fs, loc) == loc \in ds \/ loc \in DOMAIN fs

\* Variant of Makedirs: os.mkdir, which makes no parent.
MkdirLeafOnly(ds, loc) == IF loc = <<>> THEN ds ELSE ds \cup {loc}

\* Variant of Makedirs: the directory is reported but not created.
MakedirsSkipped(ds, loc) == ds

\* Line 21: os.makedirs creates the directory and its missing parents.
Makedirs(ds, loc) == ds \cup Prefixes(loc)

\* Variant of OpenForWrite: mode 'ab', which keeps what the file holds.
OpenForAppend(fs, p) == IF p \in DOMAIN fs THEN fs ELSE (p :> <<>>) @@ fs

\* Line 37: open(file_path, 'wb') creates the file or truncates it.
OpenForWrite(fs, p) == (p :> <<>>) @@ fs

\* Variant of WriteBytes: only the first byte is written.
WriteFirstByte(fs, p, bytes) ==
    [fs EXCEPT ![p] = @ \o SubSeq(bytes, 1, IF Len(bytes) > 0 THEN 1 ELSE 0)]

\* Line 38: file.write(bytes) puts the bytes after what the handle wrote.
WriteBytes(fs, p, bytes) == [fs EXCEPT ![p] = @ \o bytes]

\* Variant of ParamsMissing: `and` in place of `or`.
ParamsMissingBoth(t, loc) == t = "" /\ loc = <<>>

\* Line 50: `not inTable or not fileLocation`.
ParamsMissing(t, loc) == t = "" \/ loc = <<>>

\* Variant of Catches: `except OSError`.
CatchesOSError(e) == e \in {"OSError", "PermissionError"}

\* Line 42: `except Exception` catches every exception the calls raise.
Catches(e) == e \in {"ExecuteError", "OSError", "PermissionError",
                     "AttributeError"}

Info(text) == [kind |-> "info", text |-> text]

Error(text) == [kind |-> "error", text |-> text]

\* Line 51.
MissingParamsMsg == Error("Input table and file location are required.")

\* Variant of NoTableMsg: the f prefix of the string is missing.
NoTableMsgLiteral(t) == Error("Input table {inTable} does not exist.")

\* Line 16.
NoTableMsg(t) == Error("Input table " \o t \o " does not exist.")

\* Line 22.
CreatedMsg(loc) == Info("Created directory: " \o PathText(loc))

\* Line 40.
SavedMsg(item) == Info("Saved attachment: " \o Filename(item))

\* Line 43.
ExceptMsg(e) == Error("Error while extracting attachments: " \o e)

-----------------------------------------------------------------------------
(* Initial states *)

\* What may already be on disk: nothing, the parent only, the destination
\* empty, the destination holding an earlier export's file and a file the
\* export does not derive, or a plain file under the destination's name.
InitialDisks ==
    { [d |-> {}, f |-> <<>>],
      [d |-> {<<"out">>}, f |-> <<>>],
      [d |-> Prefixes(Dest), f |-> <<>>],
      [d |-> Prefixes(Dest),
       f |-> (Append(Dest, "ATT1_a.jpg") :> <<9>>)
             @@ (Append(Dest, "notes.txt") :> <<7>>)],
      [d |-> {<<"out">>}, f |-> (Dest :> <<5>>)] }

Init ==
    /\ inTable \in TableNames
    /\ fileLocation \in Locations
    /\ tableExists \in (IF inTable = "" THEN {FALSE} ELSE BOOLEAN)
    /\ rows \in (IF tableExists THEN RowSeqs ELSE {<<>>})
    /\ \E disk \in InitialDisks :
         /\ dirs = disk.d
         /\ files = disk.f
    /\ pc = "main"
    /\ idx = 0
    /\ cursorOpen = FALSE
    /\ openFiles = {}
    /\ msgs = <<>>
    /\ exc = NoExc
    /\ run = 1
    /\ ops = {}
    /\ nOpened = 0
    /\ nWritten = 0
    /\ faulted = FALSE
    /\ dirs0 = dirs
    /\ files0 = files
    /\ after1 = NoSnapshot

env == <<inTable, fileLocation, tableExists, rows>>

hist0 == <<dirs0, files0, after1, run>>

-----------------------------------------------------------------------------
(* Actions *)

\* Lines 46-53: read the parameters, validate, call extract_attachments.
Main ==
    /\ pc = "main"
    /\ IF ParamsMissing(inTable, fileLocation)
       THEN /\ msgs' = Append(msgs, MissingParamsMsg)
            /\ pc' = "done"
       ELSE /\ pc' = "exists"
            /\ msgs' = msgs
    /\ UNCHANGED <<env, hist0, dirs, files, idx, cursorOpen, openFiles, exc,
                   ops, nOpened, nWritten, faulted>>

\* Lines 15-17: arcpy.Exists(inTable) returns; a missing table is reported.
CheckExists ==
    /\ pc = "exists"
    /\ ops' = ops \cup {"Exists"}
    /\ IF tableExists
       THEN /\ pc' = "ensuredir"
            /\ msgs' = msgs
       ELSE /\ msgs' = Append(msgs, NoTableMsg(inTable))
            /\ pc' = "done"
    /\ UNCHANGED <<env, hist0, dirs, files, idx, cursorOpen, openFiles, exc,
                   nOpened, nWritten, faulted>>

\* Line 15: arcpy.Exists raises.
CheckExistsRaises ==
    /\ pc = "exists"
    /\ ops' = ops \cup {"Exists"}
    /\ exc' = "ExecuteError"
    /\ faulted' = TRUE
    /\ pc' = "except"
    /\ UNCHANGED <<env, hist0, dirs, files, idx, cursorOpen, openFiles, msgs,
                   nOpened, nWritten>>

\* Lines 20-22: something is there under the name, or os.makedirs creates
\* the directory with its missing parents and the creation is reported.
EnsureDir ==
    /\ pc = "ensuredir"
    /\ IF PathExists(dirs, files, fileLocation)
       THEN /\ ops' = ops \cup {"path.exists"}
            /\ UNCHANGED <<dirs, msgs>>
       ELSE /\ fileLocation # <<>>
            /\ dirs' = Makedirs(dirs, fileLocation)
            /\ ops' = ops \cup {"path.exists", "makedirs"}
            /\ msgs' = Append(msgs, CreatedMsg(fileLocation))
    /\ pc' = "cursor"
    /\ UNCHANGED <<env, hist0, files, idx, cursorOpen, openFiles, exc,
                   nOpened, nWritten, faulted>>

\* Line 21: os.makedirs raises; it creates parents first, so some of the
\* missing parents may have been created, the directory itself not.
MakedirsRaises ==
    /\ pc = "ensuredir"
    /\ ~PathExists(dirs, files, fileLocation)
    /\ \E k \in 0..(Len(fileLocation) - 1) :
         dirs' = Makedirs(dirs, SubSeq(fileLocation, 1, k))
    /\ ops' = ops \cup {"path.exists", "makedirs"}
    /\ exc' = "PermissionError"
    /\ faulted' = TRUE
    /\ pc' = "except"
    /\ UNCHANGED <<env, hist0, files, idx, cursorOpen, openFiles, msgs,
                   nOpened, nWritten>>

\* Variant of CloseOnRaise: open() without with, close() after the write.
LeakOnRaise(handles, p) == handles

\* Line 37: the with statement closes the handle when its body raises.
CloseOnRaise(handles, p) == handles \ {p}

\* Line 25: the with statement releases the cursor when its body raises.
ReleaseOnRaise(open) == FALSE

\* Line 25: da.SearchCursor(inTable, [...]) is opened and entered.
OpenCursor ==
    /\ pc = "cursor"
    /\ ops' = ops \cup {"SearchCursor"}
    /\ cursorOpen' = TRUE
    /\ pc' = "next"
    /\ UNCHANGED <<env, hist0, dirs, files, idx, openFiles, msgs, exc,
                   nOpened, nWritten, faulted>>

\* Line 25: da.SearchCursor raises (unreadable table, missing column).
OpenCursorRaises ==
    /\ pc = "cursor"
    /\ ops' = ops \cup {"SearchCursor"}
    /\ exc' = "ExecuteError"
    /\ faulted' = TRUE
    /\ pc' = "except"
    /\ UNCHANGED <<env, hist0, dirs, files, idx, cursorOpen, openFiles, msgs,
                   nOpened, nWritten>>

\* Line 26: the for statement takes the next row, or the cursor is
\* exhausted, the with block releases it and the function returns.
NextRow ==
    /\ pc = "next"
    /\ ops' = ops \cup {"next"}
    /\ IF idx < Len(rows)
       THEN /\ idx' = idx + 1
            /\ pc' = "open"
            /\ UNCHANGED cursorOpen
       ELSE /\ cursorOpen' = FALSE
            /\ pc' = "done"
            /\ UNCHANGED idx
    /\ UNCHANGED <<env, hist0, dirs, files, openFiles, msgs, exc, nOpened,
                   nWritten, faulted>>

\* Line 26: advancing the cursor raises (source unreadable mid-iteration).
NextRowRaises ==
    /\ pc = "next"
    /\ ops' = ops \cup {"next"}
    /\ cursorOpen' = ReleaseOnRaise(cursorOpen)
    /\ exc' = "ExecuteError"
    /\ faulted' = TRUE
    /\ pc' = "except"
    /\ UNCHANGED <<env, hist0, dirs, files, idx, openFiles, msgs, nOpened,
                   nWritten>>

\* Lines 27-37: the filename and the path are derived from the row and
\* the output file is opened, which takes a directory to open it in.
OpenFile ==
    /\ pc = "open"
    /\ fileLocation \in dirs
    /\ LET p == FilePath(fileLocation, rows[idx]) IN
         /\ files' = OpenForWrite(files, p)
         /\ openFiles' = openFiles \cup {p}
    /\ ops' = ops \cup {"open"}
    /\ nOpened' = nOpened + 1
    /\ pc' = "write"
    /\ UNCHANGED <<env, hist0, dirs, idx, cursorOpen, msgs, exc, nWritten,
                   faulted>>

\* Line 37: open raises (permission denied, a name the file system
\* rejects, a destination that is no directory); the file is not touched.
OpenFileRaises ==
    /\ pc = "open"
    /\ ops' = ops \cup {"open"}
    /\ cursorOpen' = ReleaseOnRaise(cursorOpen)
    /\ exc' = "PermissionError"
    /\ faulted' = TRUE
    /\ pc' = "except"
    /\ UNCHANGED <<env, hist0, dirs, files, idx, openFiles, msgs, nOpened,
                   nWritten>>

\* Line 38 and the end of the with block of line 37: the whole payload is
\* written and the file is closed.  A NULL DATA value is None in Python:
\* .tobytes() raises AttributeError before anything is written.
WriteFile ==
    /\ pc = "write"
    /\ LET item == rows[idx]
           p == FilePath(fileLocation, item)
       IN IF item.data = NULL
          THEN /\ openFiles' = CloseOnRaise(openFiles, p)
               /\ cursorOpen' = ReleaseOnRaise(cursorOpen)
               /\ exc' = "AttributeError"
               /\ pc' = "except"
               /\ UNCHANGED <<files, ops, nWritten>>
          ELSE /\ files' = WriteBytes(files, p, item.data)
               /\ openFiles' = openFiles \ {p}
               /\ ops' = ops \cup {"write"}
               /\ nWritten' = nWritten + 1
               /\ pc' = "saved"
               /\ UNCHANGED <<cursorOpen, exc>>
    /\ UNCHANGED <<env, hist0, dirs, idx, msgs, nOpened, faulted>>

\* Line 38: write, or the flush at close, raises (disk full, I/O error);
\* any leading part of the payload may have reached the file.
WriteFileRaises ==
    /\ pc = "write"
    /\ LET item == rows[idx]
           p == FilePath(fileLocation, item)
       IN /\ item.data # NULL
          /\ \E k \in 0..Len(item.data) :
               files' = WriteBytes(files, p, SubSeq(item.data, 1, k))
          /\ openFiles' = CloseOnRaise(openFiles, p)
    /\ ops' = ops \cup {"write"}
    /\ cursorOpen' = ReleaseOnRaise(cursorOpen)
    /\ exc' = "OSError"
    /\ faulted' = TRUE
    /\ pc' = "except"
    /\ UNCHANGED <<env, hist0, dirs, idx, msgs, nOpened, nWritten>>

\* Line 40: the row's file is reported.
ReportSaved ==
    /\ pc = "saved"
    /\ msgs' = Append(msgs, SavedMsg(rows[idx]))
    /\ pc' = "next"
    /\ UNCHANGED <<env, hist0, dirs, files, idx, cursorOpen, openFiles, exc,
                   ops, nOpened, nWritten, faulted>>

\* Lines 42-43: the handler reports the exception and the function
\* returns; an exception it does not catch leaves the function.
Handler ==
    /\ pc = "except"
    /\ IF Catches(exc)
       THEN /\ msgs' = Append(msgs, ExceptMsg(exc))
            /\ pc' = "done"
       ELSE /\ pc' = "propagated"
            /\ msgs' = msgs
    /\ UNCHANGED <<env, hist0, dirs, files, idx, cursorOpen, openFiles, exc,
                   ops, nOpened, nWritten, faulted>>

\* The tool is run again on the same source: nothing but the file system
\* is carried over from the run before.
Rerun ==
    /\ pc = "done"
    /\ run + 1 \in Runs
    /\ run' = run + 1
    /\ after1' = [taken |-> TRUE, dirs |-> dirs, files |-> files,
                  msgs |-> msgs, faulted |-> faulted]
    /\ dirs0' = dirs
    /\ files0' = files
    /\ pc' = "main"
    /\ idx' = 0
    /\ msgs' = <<>>
    /\ exc' = NoExc
    /\ ops' = {}
    /\ nOpened' = 0
    /\ nWritten' = 0
    /\ faulted' = FALSE
    /\ UNCHANGED <<env, dirs, files, cursorOpen, openFiles>>

Next ==
    \/ Main
    \/ CheckExists
    \/ CheckExistsRaises
    \/ EnsureDir
    \/ MakedirsRaises
    \/ OpenCursor
    \/ OpenCursorRaises
    \/ NextRow
    \/ NextRowRaises
    \/ OpenFile
    \/ OpenFileRaises
    \/ WriteFile
    \/ WriteFileRaises
    \/ ReportSaved
    \/ Handler
    \/ Rerun

Spec == Init /\ [][Next]_vars

-----------------------------------------------------------------------------
(* Vocabulary of the properties *)

\* The naming convention as the specification words it:
\* destinationDirectory/ATT<attachmentId>_<attachmentName>.
SpecPath(item) ==
    Append(fileLocation, "ATT" \o ToString(item.id) \o "_" \o item.name)

Holds(item) ==
    /\ SpecPath(item) \in DOMAIN files
    /\ files[SpecPath(item)] = item.data

SameName(i, j) == SpecPath(rows[i]) = SpecPath(rows[j])

ErrorCount == Cardinality({k \in DOMAIN msgs : msgs[k].kind = "error"})

\* The texts a "Saved attachment" message can have.
SavedTexts ==
    {"Saved attachment: " \o "ATT" \o ToString(i) \o "_" \o n :
       i \in Ids, n \in Names}

IsSaved(m) == m.kind = "info" /\ m.text \in SavedTexts

SavedCount == Cardinality({k \in DOMAIN msgs : IsSaved(msgs[k])})

IsCreated(m) ==
    m = [kind |-> "info", text |-> "Created directory: out/photos"]

CreatedCount == Cardinality({k \in DOMAIN msgs : IsCreated(msgs[k])})

ParamsGiven == inTable # "" /\ fileLocation # <<>>

RunEnded == pc = "done"

\* The source exists and the existence check said so (it did not raise).
SourceFound == tableExists /\ ~(exc = "ExecuteError" /\ ops = {"Exists"})

\* Row i's file was opened again by a later row of the run.
ReopenedLater(i) == \E j \in (i + 1)..nOpened : SameName(i, j)

\* Row i's file was written again, to completion, by a later row.
RewrittenLater(i) == \E j \in (i + 1)..nWritten : SameName(i, j)

-----------------------------------------------------------------------------
(* C1 *)

\* C1 as stated: when the run has ended, every row whose write completed
\* has its file ATT<id>_<name> on disk holding exactly its payload.
C1_AsStated ==
    RunEnded => \A i \in 1..nWritten : Holds(rows[i])

\* C1, amended: when the run has ended, every row whose write completed
\* and whose file no later row of the run opened again has its file
\* ATT<id>_<name> on disk holding exactly its payload, the empty payload
\* included.
C1_FileHoldsPayload ==
    RunEnded => \A i \in 1..nWritten : ~ReopenedLater(i) => Holds(rows[i])

\* The specification's scenario: (1, a.jpg, 01 02) and (2, b.jpg, empty)
\* both written, the second as a file of zero bytes.
C1_Witness ==
    /\ RunEnded
    /\ nWritten = 2
    /\ rows[1] = [data |-> <<1, 2>>, name |-> "a.jpg", id |-> 1]
    /\ rows[2] = [data |-> <<>>, name |-> "b.jpg", id |-> 2]
    /\ files[Append(Dest, "ATT1_a.jpg")] = <<1, 2>>
    /\ files[Append(Dest, "ATT2_b.jpg")] = <<>>

-----------------------------------------------------------------------------
(* C2 *)

\* C2 as stated: when the run has ended and two rows it read yield the
\* same filename, the file holds the payload of the last such row that
\* was processed (its write completed).
C2_AsStated ==
    RunEnded =>
      \A i, j \in 1..idx :
        (i < j /\ SameName(i, j)) =>
          \E k \in 1..nWritten :
            /\ SameName(i, k)
            /\ ~RewrittenLater(k)
            /\ Holds(rows[k])

\* C2, amended: when the run has ended and two rows it read yield the same
\* filename, then (a) if the last row that opened the file completed its
\* write, the file holds exactly that row's payload, never the earlier
\* row's and never both; (b) the collision itself is not reported: with
\* no exception raised there is no error message, and every row written
\* has its own "Saved attachment" message.
C2_LastWriterWins ==
    RunEnded =>
      \A i, j \in 1..idx :
        (i < j /\ SameName(i, j)) =>
          /\ (j <= nWritten /\ ~ReopenedLater(j)) => Holds(rows[j])
          /\ exc = NoExc => (ErrorCount = 0 /\ SavedCount = Len(rows))
          /\ SavedCount = nWritten

\* Two rows of the same filename and different payloads, both written.
C2_Witness ==
    /\ RunEnded
    /\ nWritten = 2
    /\ SameName(1, 2)
    /\ rows[1].data = <<1, 2>>
    /\ rows[2].data = <<>>
    /\ files[SpecPath(rows[1])] = <<>>
    /\ ErrorCount = 0

-----------------------------------------------------------------------------
(* C3 *)

\* C3: when arcpy.Exists has returned false, the run ends with exactly one
\* message, the error naming the table; the disk is as it was when the run
\* started (no directory created, no file written), and the only call made
\* is the existence check (no cursor, no row read).
C3_MissingTable ==
    (RunEnded /\ ParamsGiven /\ ~tableExists /\ exc = NoExc) =>
      /\ msgs = << [kind |-> "error",
                    text |-> "Input table " \o inTable \o " does not exist."] >>
      /\ dirs = dirs0
      /\ files = files0
      /\ ops = {"Exists"}
      /\ idx = 0
      /\ nOpened = 0
      /\ ~cursorOpen

\* The table is missing and so is the destination, which stays missing.
C3_Witness ==
    /\ RunEnded
    /\ ParamsGiven
    /\ ~tableExists
    /\ exc = NoExc
    /\ fileLocation \notin dirs
    /\ Len(msgs) = 1

-----------------------------------------------------------------------------
(* C4 *)

\* C4: when a parameter is empty, extract_attachments is never entered: in
\* every state of the run no outside-world call has been made and the disk
\* is as it was, and the run ends with the one error message of line 51.
C4_MissingParameter ==
    (inTable = "" \/ fileLocation = <<>>) =>
      /\ pc \in {"main", "done"}
      /\ ops = {}
      /\ dirs = dirs0
      /\ files = files0
      /\ idx = 0
      /\ nOpened = 0
      /\ ~cursorOpen
      /\ RunEnded =>
           msgs = << [kind |-> "error",
                      text |-> "Input table and file location are required."] >>

\* The table is given and exists, only the destination is empty.
C4_Witness ==
    /\ RunEnded
    /\ inTable # ""
    /\ tableExists
    /\ fileLocation = <<>>
    /\ Len(msgs) = 1

-----------------------------------------------------------------------------
(* C5 *)

\* What C5 says of the messages and of the caller: the exception never
\* leaves extract_attachments, and a run that raised ends with exactly one
\* error message, its last message, carrying the exception's description,
\* with no row read and no file reported beyond the failing one.
C5_Reported ==
    /\ pc # "propagated"
    /\ (RunEnded /\ exc # NoExc) =>
         /\ ErrorCount = 1
         /\ msgs[Len(msgs)] =
              [kind |-> "error",
               text |-> "Error while extracting attachments: " \o exc]
         /\ SavedCount = nWritten
         /\ idx <= nWritten + 1
         /\ nOpened <= nWritten + 1

\* C5 as stated: a run that raised is reported as above, and every file
\* written by an earlier row still holds the contents it was given (the
\* payload of the last row that wrote it to completion).
C5_AsStated ==
    /\ C5_Reported
    /\ (RunEnded /\ exc # NoExc) =>
         \A i \in 1..nWritten : ~RewrittenLater(i) => Holds(rows[i])

\* C5, amended: a run that raised is reported as above, and every file
\* written by an earlier row still holds the contents it was given, except
\* the file of the failing row itself when an earlier row had written the
\* same filename: opening it has already truncated it.
C5_AbortKeepsEarlierFiles ==
    /\ C5_Reported
    /\ (RunEnded /\ exc # NoExc) =>
         \A i \in 1..nWritten : ~ReopenedLater(i) => Holds(rows[i])

\* The second row's write raises after the first row's file was written:
\* one error message, and the first row's file is still there.
C5_Witness ==
    /\ RunEnded
    /\ exc = "OSError"
    /\ nWritten = 1
    /\ idx = 2
    /\ ~SameName(1, 2)
    /\ rows[1].data = <<1, 2>>
    /\ Holds(rows[1])
    /\ ErrorCount = 1

-----------------------------------------------------------------------------
(* C6 *)

\* What C6 says of the report: when the run has ended, the "Created
\* directory" message is there exactly when this run created the
\* directory, and a destination that was there is neither created again
\* nor reported.
C6_Report ==
    (RunEnded /\ ParamsGiven /\ SourceFound) =>
      /\ CreatedCount = (IF fileLocation \notin dirs0 /\ fileLocation \in dirs
                         THEN 1 ELSE 0)
      /\ fileLocation \in dirs0 =>
           ("makedirs" \notin ops /\ dirs = dirs0 /\ CreatedCount = 0)

-----------------------------------------------------------------------------
(* C7 *)

-----------------------------------------------------------------------------
(* C8 *)

\* The k-th "Saved attachment" message is the one of the k-th row.
SavedInCursorOrder ==
    LET saved == SelectSeq(msgs, IsSaved) IN
      \A k \in 1..Len(saved) :
        saved[k].text = "Saved attachment: " \o "ATT"
                          \o ToString(rows[k].id) \o "_" \o rows[k].name

\* C8: the steps come in one order.  The existence check precedes the
\* directory, the directory the cursor, the cursor every row; a row is
\* read only when the row before it is written and reported; a row is
\* reported only when its file holds its whole payload; and the number of
\* "Saved attachment" messages is the number of completed writes or one
\* less.
C8_StrictOrder ==
    LET saved == SavedCount IN
    /\ "path.exists" \in ops => "Exists" \in ops
    /\ "makedirs" \in ops => "path.exists" \in ops
    /\ "SearchCursor" \in ops =>
         ("path.exists" \in ops /\ PathExists(dirs, files, fileLocation))
    /\ "next" \in ops => "SearchCursor" \in ops
    /\ "open" \in ops => "next" \in ops
    /\ "write" \in ops => "open" \in ops
    /\ pc \in {"next", "open", "write", "saved"} => cursorOpen
    /\ pc = "next" => (nOpened = idx /\ nWritten = idx /\ saved = idx)
    /\ pc = "open" =>
         (nOpened = idx - 1 /\ nWritten = idx - 1 /\ saved = idx - 1)
    /\ pc = "write" =>
         (nOpened = idx /\ nWritten = idx - 1 /\ saved = idx - 1)
    /\ pc = "saved" =>
         (nOpened = idx /\ nWritten = idx /\ saved = idx - 1
            /\ Holds(rows[idx]))
    /\ (pc = "next" /\ idx >= 1) => Holds(rows[idx])
    /\ saved <= nWritten
    /\ nWritten <= saved + 1
    /\ SavedInCursorOrder

\* The second row has just been reported: two writes, two messages, and
\* its file holds its payload.
C8_Witness ==
    /\ pc = "next"
    /\ idx = 2
    /\ SavedCount = 2
    /\ rows[2].data = <<1, 2>>
    /\ ~SameName(1, 2)
    /\ Holds(rows[1])
    /\ Holds(rows[2])

-----------------------------------------------------------------------------
(* C9 *)

\* C9: at most one output file handle is open at any time, a handle is
\* open only while the cursor is, and once the body of the function is
\* left, by return or by an exception, no handle and no cursor is open.
C9_HandlesScoped ==
    /\ Cardinality(openFiles) <= 1
    /\ openFiles # {} => (cursorOpen /\ pc = "write")
    /\ pc \in {"except", "done", "propagated", "main"} =>
         (openFiles = {} /\ ~cursorOpen)

\* The write of the second row raised: nothing is left open.
C9_Witness ==
    /\ RunEnded
    /\ exc \in {"OSError", "AttributeError"}
    /\ nOpened = 2
    /\ openFiles = {}
    /\ ~cursorOpen

-----------------------------------------------------------------------------
(* C10 *)

\* The paths the rows of the source derive.
DerivedPaths == {SpecPath(rows[i]) : i \in 1..Len(rows)}

\* The messages of a run apart from "Created directory".
Reports(ms) == SelectSeq(ms, LAMBDA m : ~IsCreated(m))

\* C10: a second run on the same source, neither run meeting an I/O fault,
\* leaves the disk as the first run left it and reports what the first
\* run reported (an existing file is replaced, not rejected and not
\* appended to); and in every run the files that no row derives keep
\* their contents.
C10_RerunIdempotent ==
    /\ (RunEnded /\ run = 2 /\ ~faulted /\ ~after1.faulted) =>
         /\ files = after1.files
         /\ dirs = after1.dirs
         /\ Reports(msgs) = Reports(after1.msgs)
    /\ RunEnded =>
         \A p \in DOMAIN files0 :
           p \notin DerivedPaths => (p \in DOMAIN files /\ files[p] = files0[p])

\* A second run that rewrote two files of the first, next to a file that
\* no row derives.
C10_Witness ==
    /\ RunEnded
    /\ run = 2
    /\ ~faulted
    /\ ~after1.faulted
    /\ nWritten = 2
    /\ ~SameName(1, 2)
    /\ rows[1].data = <<1, 2>>
    /\ Append(Dest, "notes.txt") \in DOMAIN files
    /\ ParamsGiven

====
